---------------------------- MODULE Spec2Model ----------------------------
(***************************************************************************)
(* Model of the spaced-repetition core of mini-duolingo:                   *)
(*   src/src/review_strategy.py     SM2Algorithm, ReviewStrategy           *)
(*   src/src/question_generator.py  QuestionGenerator                      *)
(*   src/src/app.py                 the profile, the routes that compose a *)
(*                                  session and take an answer             *)
(*                                                                         *)
(* Numbers.  Ease factors are floats in the source; here they are integers *)
(* counting hundredths (2.5 is 250, 1.3 is 130), which represents every    *)
(* value the update rule can produce from 2.5 exactly.  mastery_level is   *)
(* the quotient correct/total; it is kept as the reduced fraction          *)
(* <<numerator, denominator>>.                                             *)
(*                                                                         *)
(* Time.  datetime.now() is the variable clock, counted in ticks; one day  *)
(* is Day ticks.  The clock may advance between two reads of now() inside  *)
(* one call.                                                               *)
(***************************************************************************)
EXTENDS Integers, Sequences, FiniteSets, TLC

VARIABLES
    store,      \* word_progress.csv: the data rows of the file, in file order
    clock,      \* datetime.now()
    answered,   \* history: per (word, language) as passed by callers,
                \*          <<calls to update_word_progress, of which correct>>
    last,       \* the last call made and what it returned
    ai_service, \* the module global ai_service: TRUE a client, FALSE None
    gen,        \* the call of QuestionGenerator.generate in progress
    user_md,    \* USER_CONFIG_FILE (user.md): << >> while there is no file,
                \* else <<its "key: value" lines as a record>>
    question_history,  \* question_history.csv: the rows appended so far
    threads     \* the calls of update_word_progress that run concurrently,
                \* each with its position and its local variables

vars == <<store, clock, answered, last, ai_service, gen, user_md,
          question_history, threads>>

---------------------------------------------------------------------------
(* Bounds of the model *)

MaxUpdates == 2         \* update_word_progress calls in one behaviour
MaxClock == 2           \* last tick at which a call may start
MaxTimeSpent == 11      \* largest time_spent (seconds) passed by a caller
MaxLimit == 2           \* largest limit passed to get_words_due_for_review
MaxDrill == 5           \* update_word_progress calls in one drill behaviour
MinEase == 100          \* smallest ease factor passed to calculate_next_review
MaxEase == 300          \* largest ease factor passed to calculate_next_review
MaxInterval == 7        \* largest interval passed to calculate_next_review
MaxReps == 3            \* largest repetitions passed to calculate_next_review
MaxStored == 2          \* words practised before sessions are composed
MaxSubmits == 2         \* answers submitted in one behaviour
MaxRows == 3            \* records of a progress file that is scanned
MaxDue == 6             \* due words in the store when a session is composed

(* Program constants *)

MIN_EF == 130           \* SM2Algorithm.MIN_EF = 1.3
InitialEF == 250        \* the 2.5 passed for a new word
Day == 2                \* timedelta(days=1), in ticks
DueLimit == 5           \* generate asks for at most 5 due words
SessionCount == 15      \* the route asks generate for 15 questions

None == -1               \* time_spent=None: stands apart from every time a caller passes
BadTime == -2            \* a next_review text that datetime.fromisoformat rejects

---------------------------------------------------------------------------
(* Inputs *)

WordCR == "a<CR>b"      \* a word holding a carriage return
WordLF == "a<LF>b"      \* the same word with a line feed in its place
Words == {"happy", WordCR}
Languages == {"en", "fr"}
DefaultLanguage == "en" \* the default of user_config.get (English in the source)
TimeSpentValues == {None} \cup (0 .. MaxTimeSpent)
Limits == 0 .. MaxLimit
Qualities == 0 .. 5
EaseValues == MinEase .. MaxEase
Intervals == 0 .. MaxInterval
Repetitions == 0 .. MaxReps

\* the words practised before sessions are composed, in this order
PracticeWords == <<"apple", "bread", "cloud", "dream", "earth", "flame",
                   "grape", "house">>

\* the words of submitted answers; "" when the request names no word
SubmittedWords == {"happy", ""}

\* the values of count passed to generate; the application passes 15
TargetCounts == {0, 1, 2, 3, 15, 16, 31}


---------------------------------------------------------------------------
(* SM2Algorithm *)

Max(a, b) == IF a >= b THEN a ELSE b

\* int(x) of Python for the quotient n / d, d > 0: truncation toward zero.
\* The source multiplies floats; the product is exact here, so a float
\* product that falls just short of an integer is not represented.
IntTrunc(n, d) == IF n >= 0 THEN n \div d ELSE -((-n) \div d)

\* faulty variant: the floor at MIN_EF is left out
NewEasinessFactor_NoFloor(quality, easiness_factor) ==
    easiness_factor + (10 - (5 - quality) * (8 + (5 - quality) * 2))

\* faulty variant: the ease factor is left alone when the answer resets the schedule
NewEasinessFactor_SuccessOnly(quality, easiness_factor) ==
    IF quality < 3 THEN Max(easiness_factor, MIN_EF)
    ELSE Max(easiness_factor + (10 - (5 - quality) * (8 + (5 - quality) * 2)), MIN_EF)

\* EF' = EF + (0.1 - (5 - q) * (0.08 + (5 - q) * 0.02)), floored at MIN_EF
NewEasinessFactor(quality, easiness_factor) ==
    Max(easiness_factor + (10 - (5 - quality) * (8 + (5 - quality) * 2)), MIN_EF)

\* faulty variant: only a blackout (quality 0 or 1) resets the repetitions
NewRepetitions_ResetBelow2(quality, repetitions) ==
    IF quality < 2 THEN 0 ELSE repetitions + 1

NewRepetitions(quality, repetitions) ==
    IF quality < 3 THEN 0 ELSE repetitions + 1

\* faulty variant: the multiplicative step uses the ease factor before its update
NewInterval_OldEase(quality, easiness_factor, interval, repetitions) ==
    IF quality < 3 THEN 1
    ELSE IF repetitions + 1 = 1 THEN 1
    ELSE IF repetitions + 1 = 2 THEN 6
    ELSE IntTrunc(interval * easiness_factor, 100)

NewInterval(quality, easiness_factor, interval, repetitions) ==
    IF quality < 3 THEN 1
    ELSE IF repetitions + 1 = 1 THEN 1
    ELSE IF repetitions + 1 = 2 THEN 6
    ELSE IntTrunc(interval * NewEasinessFactor(quality, easiness_factor), 100)

calculate_next_review(quality, easiness_factor, interval, repetitions, now) ==
    [ef          |-> NewEasinessFactor(quality, easiness_factor),
     interval    |-> NewInterval(quality, easiness_factor, interval, repetitions),
     repetitions |-> NewRepetitions(quality, repetitions),
     next_review |-> now + NewInterval(quality, easiness_factor, interval, repetitions) * Day]

\* faulty variant: the two time boundaries are inclusive
quality_from_performance_Inclusive(is_correct, time_spent) ==
    IF ~is_correct THEN 2
    ELSE IF time_spent = None THEN 4
    ELSE IF time_spent <= 3 THEN 5
    ELSE IF time_spent <= 10 THEN 4
    ELSE 3

quality_from_performance(is_correct, time_spent) ==
    IF ~is_correct THEN 2
    ELSE IF time_spent = None THEN 4
    ELSE IF time_spent < 3 THEN 5
    ELSE IF time_spent < 10 THEN 4
    ELSE 3

---------------------------------------------------------------------------
(* The progress file *)

\* The file is written with newline='' and read back in text mode without
\* it, so a carriage return inside a quoted field is read as a line feed.
UniversalNewlines(s) == IF s = WordCR THEN WordLF ELSE s

\* csv.DictReader over the file: the rows as a reader sees them
ReadRow(row) ==
    [row EXCEPT !.word = UniversalNewlines(row.word),
                !.language = UniversalNewlines(row.language)]

ReadRows(file) == [i \in 1 .. Len(file) |-> ReadRow(file[i])]

Matches(rows, word, language) ==
    {i \in 1 .. Len(rows) : rows[i].word = word /\ rows[i].language = language}

Min(S) == CHOOSE x \in S : \A y \in S : x <= y

\* the first row with this word and language as <<row>>, or << >> for None
_get_word_data(file, word, language) ==
    LET rows == ReadRows(file)
        hits == Matches(rows, word, language)
    IN  IF hits = {} THEN << >> ELSE <<rows[Min(hits)]>>

\* faulty variant: the record is appended even when its key is in the file
_save_word_data_Append(file, word_data) ==
    Append(ReadRows(file), word_data)

\* read every row, replace the first row of the same key or append, rewrite
_save_word_data(file, word_data) ==
    LET rows == ReadRows(file)
        hits == Matches(rows, word_data.word, word_data.language)
    IN  IF hits = {} THEN Append(rows, word_data)
        ELSE [rows EXCEPT ![Min(hits)] = word_data]

RECURSIVE GCD(_, _)
GCD(a, b) == IF b = 0 THEN a ELSE GCD(b, a % b)

\* correct_attempts / total_attempts, total_attempts > 0
Ratio(k, n) == <<k \div GCD(k, n), n \div GCD(k, n)>>

\* the record update_word_progress builds; now1 is the clock read inside
\* calculate_next_review, now2 the later read for last_review
NewWordData(found, word, language, is_correct, time_spent, now1, now2) ==
    LET quality == quality_from_performance(is_correct, time_spent)
        word_data == found[1]
    IN  IF found = << >>
        THEN LET r == calculate_next_review(quality, InitialEF, 0, 0, now1)
             IN  [word             |-> word,
                  language         |-> language,
                  total_attempts   |-> 1,
                  correct_attempts |-> IF is_correct THEN 1 ELSE 0,
                  last_review      |-> now2,
                  next_review      |-> r.next_review,
                  ease_factor      |-> r.ef,
                  interval         |-> r.interval,
                  mastery_level    |-> IF is_correct THEN <<1, 1>> ELSE <<0, 1>>]
        ELSE LET total_attempts == word_data.total_attempts + 1
                 correct_attempts == word_data.correct_attempts
                                       + (IF is_correct THEN 1 ELSE 0)
                 r == calculate_next_review(quality, word_data.ease_factor,
                                            word_data.interval, 0, now1)
             IN  [word_data EXCEPT
                  !.total_attempts   = total_attempts,
                  !.correct_attempts = correct_attempts,
                  !.last_review      = now2,
                  !.next_review      = r.next_review,
                  !.ease_factor      = r.ef,
                  !.interval         = r.interval,
                  !.mastery_level    = Ratio(correct_attempts, total_attempts)]

RECURSIVE ScanDue(_, _, _, _, _)
\* the loop of get_words_due_for_review from row i on, words_due so far;
\* the ValueError of fromisoformat is caught and the row passed over
ScanDue(rows, i, language, limit, now) ==
    IF i > Len(rows) THEN << >>
    ELSE IF rows[i].language # language
         THEN ScanDue(rows, i + 1, language, limit, now)
    ELSE IF rows[i].next_review = BadTime
         THEN ScanDue(rows, i + 1, language, limit, now)
    ELSE LET found == IF rows[i].next_review <= now THEN <<rows[i]>> ELSE << >>
             rest  == ScanDue(rows, i + 1, language, limit - Len(found), now)
         IN  IF Len(found) >= limit THEN found ELSE found \o rest

\* faulty variant: the file is scanned from its last row to its first
get_words_due_for_review_Backwards(file, language, limit, now) ==
    LET rows == ReadRows(file)
    IN  ScanDue([i \in 1 .. Len(rows) |-> rows[Len(rows) + 1 - i]], 1,
                language, limit, now)

get_words_due_for_review(file, language, limit, now) ==
    ScanDue(ReadRows(file), 1, language, limit, now)

\* a mastery_level text that float() rejects
BadFloat == <<0, 0>>

\* the sum of two fractions, reduced
AddRatio(x, y) == Ratio(x[1] * y[2] + y[1] * x[2], x[2] * y[2])

\* round(100 * n / d, 1) for n >= 0, d > 0, counted in tenths of a per
\* cent: to the nearest tenth, a tie to the even one
RoundPercent(n, d) ==
    LET q == (1000 * n) \div d
        r == (1000 * n) % d
    IN  IF 2 * r < d THEN q
        ELSE IF 2 * r > d THEN q + 1
        ELSE IF q % 2 = 0 THEN q ELSE q + 1

\* the result of a call that raises ValueError
Raised == [raised |-> TRUE]

RECURSIVE ScanMastery(_, _, _, _)
\* the loop of get_mastery_stats from row i on; acc holds total_words,
\* mastered_words, learning_words and total_mastery so far.  float() of a
\* malformed mastery_level raises and nothing catches it
ScanMastery(rows, i, language, acc) ==
    IF i > Len(rows) THEN acc
    ELSE IF language # "" /\ rows[i].language # language
         THEN ScanMastery(rows, i + 1, language, acc)
    ELSE IF rows[i].mastery_level = BadFloat THEN Raised
    ELSE LET mastery == rows[i].mastery_level
             mastered == 5 * mastery[1] >= 4 * mastery[2]
         IN  ScanMastery(rows, i + 1, language,
                 [raised         |-> FALSE,
                  total_words    |-> acc.total_words + 1,
                  mastered_words |-> acc.mastered_words
                                       + (IF mastered THEN 1 ELSE 0),
                  learning_words |-> acc.learning_words
                                       + (IF mastered THEN 0 ELSE 1),
                  total_mastery  |-> AddRatio(acc.total_mastery, mastery)])

\* faulty variant: a word counts as mastered only above 0.8
get_mastery_stats_Above(file, language) ==
    LET rows == ReadRows(file)
        matching == {i \in 1 .. Len(rows) :
                        language = "" \/ rows[i].language = language}
        acc == ScanMastery(rows, 1, language,
                   [raised |-> FALSE, total_words |-> 0, mastered_words |-> 0,
                    learning_words |-> 0, total_mastery |-> <<0, 1>>])
    IN  IF acc.raised THEN Raised
        ELSE LET mastered == Cardinality({i \in matching :
                     5 * rows[i].mastery_level[1] > 4 * rows[i].mastery_level[2]})
             IN  [raised          |-> FALSE,
                  total_words     |-> acc.total_words,
                  mastered_words  |-> mastered,
                  learning_words  |-> acc.total_words - mastered,
                  average_mastery |->
                      IF acc.total_words > 0
                      THEN RoundPercent(acc.total_mastery[1],
                               acc.total_mastery[2] * acc.total_words)
                      ELSE 0]

\* get_mastery_stats(language); language "" stands for None (every
\* language).  average_mastery is counted in tenths of a per cent
get_mastery_stats(file, language) ==
    LET acc == ScanMastery(ReadRows(file), 1, language,
                   [raised |-> FALSE, total_words |-> 0, mastered_words |-> 0,
                    learning_words |-> 0, total_mastery |-> <<0, 1>>])
    IN  IF acc.raised THEN Raised
        ELSE [raised          |-> FALSE,
              total_words     |-> acc.total_words,
              mastered_words  |-> acc.mastered_words,
              learning_words  |-> acc.learning_words,
              average_mastery |->
                  IF acc.total_words > 0
                  THEN RoundPercent(acc.total_mastery[1],
                           acc.total_mastery[2] * acc.total_words)
                  ELSE 0]

---------------------------------------------------------------------------
(* QuestionGenerator: questions *)

\* Questions are records; a field the source dictionary lacks is a field
\* the record lacks.  The Chinese texts of the source are given in English.

MC == "multiple_choice"
FB == "fill_blank"

BankMC(word, question, options, answer) ==
    [type |-> MC, question |-> question, options |-> options,
     answer |-> answer, word |-> word]

BankFB(word, question, answer) ==
    [type |-> FB, question |-> question, answer |-> answer, word |-> word]

\* the built-in question bank, in its order
_get_default_questions ==
    << BankMC("happy", "choose the meaning of happy",
              <<"sad", "joyful", "angry", "tired">>, "joyful"),
       BankMC("beautiful", "choose the meaning of beautiful",
              <<"ugly", "pretty", "ordinary", "strange">>, "pretty"),
       BankFB("happy", "I am very _____ today.", "happy"),
       BankMC("run", "choose the meaning of run",
              <<"walk", "to run", "jump", "fly">>, "to run"),
       BankFB("run", "She likes to _____ in the park.", "run"),
       BankMC("book", "choose the meaning of book",
              <<"a book", "pen", "table", "chair">>, "a book"),
       BankFB("book", "This is a good _____.", "book"),
       BankMC("eat", "choose the meaning of eat",
              <<"drink", "to eat", "to sleep", "play">>, "to eat"),
       BankFB("eat", "Let's _____ dinner together.", "eat"),
       BankMC("sleep", "choose the meaning of sleep",
              <<"work", "to sleep", "exercise", "study">>, "to sleep"),
       BankFB("sleep", "I need to _____ now.", "sleep"),
       BankMC("write", "choose the meaning of write",
              <<"read", "to write", "look", "listen">>, "to write"),
       BankFB("write", "Please _____ your name here.", "write"),
       BankMC("speak", "choose the meaning of speak",
              <<"listen", "to speak", "read", "write">>, "to speak"),
       BankFB("speak", "Can you _____ English?", "speak") >>

\* the placeholder review question of a word
_get_default_review_question(word) ==
    [type |-> MC, question |-> "please review the word: " \o word,
     options |-> <<word \o " (correct)", "option B", "option C", "option D">>,
     answer |-> word \o " (correct)", word |-> word]

\* an item of a reply that is no dictionary (JSON null)
NotADict == [json |-> "null"]

InSeq(x, seq) == \E i \in 1 .. Len(seq) : seq[i] = x

\* faulty variant: the answer is not looked up among the options
_validate_question_AnyAnswer(question) ==
    IF question = NotADict THEN "raise"
    ELSE IF {"type", "question", "answer", "word"} \ DOMAIN question # {}
         THEN "invalid"
    ELSE IF question.type = MC
         THEN IF "options" \notin DOMAIN question THEN "invalid"
              ELSE IF Len(question.options) # 4 THEN "invalid"
              ELSE "valid"
    ELSE "valid"

\* "valid" for True, "invalid" for False, "raise" for the TypeError of a
\* membership test on an item that is no dictionary
_validate_question(question) ==
    IF question = NotADict THEN "raise"
    ELSE IF {"type", "question", "answer", "word"} \ DOMAIN question # {}
         THEN "invalid"
    ELSE IF question.type = MC
         THEN IF "options" \notin DOMAIN question THEN "invalid"
              ELSE IF Len(question.options) # 4 THEN "invalid"
              ELSE IF ~InSeq(question.answer, question.options) THEN "invalid"
              ELSE "valid"
    ELSE "valid"

\* s[:n] for n >= 0
Take(s, n) == SubSeq(s, 1, IF n < Len(s) THEN n ELSE Len(s))

(* QuestionGenerator: what the external source may reply *)

AiMC(word) ==
    [type |-> MC, question |-> "ai: which one is " \o word,
     options |-> <<"A", "B", "C", "D">>, answer |-> "B", word |-> word]
AiFB == [type |-> FB, question |-> "ai: fill the blank", answer |-> "x",
         word |-> "elsewhere"]
AiThreeOptions(word) ==
    [type |-> MC, question |-> "ai: three options",
     options |-> <<"A", "B", "C">>, answer |-> "B", word |-> word]
AiFiveOptions(word) ==
    [type |-> MC, question |-> "ai: five options",
     options |-> <<"A", "B", "C", "D", "E">>, answer |-> "B", word |-> word]
AiAnswerNotOption(word) ==
    [type |-> MC, question |-> "ai: answer is no option",
     options |-> <<"A", "B", "C", "D">>, answer |-> "E", word |-> word]
AiNoOptions(word) ==
    [type |-> MC, question |-> "ai: no options", answer |-> "B", word |-> word]
AiNoWord == [type |-> FB, question |-> "ai: no word", answer |-> "x"]

\* a call that raises (network error, timeout, text that is no JSON)
Failed == [ok |-> FALSE, items |-> << >>]
Reply(items) == [ok |-> TRUE, items |-> items]

\* replies to a request about a word
AIReplies(word) ==
    { Failed,
      Reply(<< >>),
      Reply(<<AiMC(word)>>),
      Reply(<<AiMC(word), AiFB>>),
      Reply(<<AiFB, AiMC(word), AiMC(word)>>),
      Reply(<<AiThreeOptions(word), AiMC(word), AiAnswerNotOption(word), AiNoWord>>),
      Reply(<<AiNoOptions(word), AiFiveOptions(word)>>),
      Reply(<<AiMC(word), NotADict, AiFB>>) }

\* the two plain outcomes of a call: it fails, or it replies one valid
\* question
BasicReplies(word) ==
    {Failed, Reply(<<AiMC(word)>>)}

(* QuestionGenerator: the loops *)

RECURSIVE AcceptFrom(_, _)
\* "for q in questions: if valid: append", from item i on: what is
\* appended, and whether an item raised
AcceptFrom(items, i) ==
    IF i > Len(items) THEN [kept |-> << >>, raised |-> FALSE]
    ELSE LET v == _validate_question(items[i])
         IN  IF v = "raise" THEN [kept |-> << >>, raised |-> TRUE]
             ELSE LET rest == AcceptFrom(items, i + 1)
                  IN  [kept   |-> (IF v = "valid" THEN <<items[i]>> ELSE << >>)
                                     \o rest.kept,
                       raised |-> rest.raised]

\* one round of the loop of _generate_review_questions: what the round
\* appends to review_questions for this word and this reply
ReviewQuestionsFor(word, reply) ==
    IF ~reply.ok THEN <<_get_default_review_question(word)>>
    ELSE LET a == AcceptFrom(reply.items, 1)
         IN  IF a.raised THEN a.kept \o <<_get_default_review_question(word)>>
             ELSE a.kept

\* faulty variant of the round below: a failed call is made once more
\* before the placeholder is used
ReviewCallsFor_Retry(reply) == IF reply.ok THEN 1 ELSE 2

\* the calls one round of the loop of _generate_review_questions makes to
\* the source: one, whatever the reply
ReviewCallsFor(reply) == 1

\* faulty variant: a failed call is not replaced by the bank
_generate_new_questions_NoFallback(count, article, reply) ==
    IF ~article THEN Take(_get_default_questions, count)
    ELSE IF ~ai_service THEN Take(_get_default_questions, count)
    ELSE IF ~reply.ok THEN << >>
    ELSE IF reply.items = << >> THEN Take(_get_default_questions, count)
    ELSE LET a == AcceptFrom(reply.items, 1)
         IN  IF a.raised THEN Take(_get_default_questions, count)
             ELSE IF Len(a.kept) < count
                  THEN Take(a.kept \o Take(_get_default_questions,
                                           count - Len(a.kept)), count)
                  ELSE Take(a.kept, count)

\* _generate_new_questions(user_config, count); article is FALSE when
\* get_random_article returns None or an empty text
_generate_new_questions(count, article, reply) ==
    IF ~article THEN Take(_get_default_questions, count)
    ELSE IF ~ai_service THEN Take(_get_default_questions, count)
    ELSE IF ~reply.ok \/ reply.items = << >>
         THEN Take(_get_default_questions, count)
    ELSE LET a == AcceptFrom(reply.items, 1)
         IN  IF a.raised THEN Take(_get_default_questions, count)
             ELSE IF Len(a.kept) < count
                  THEN Take(a.kept \o Take(_get_default_questions,
                                           count - Len(a.kept)), count)
                  ELSE Take(a.kept, count)

Reverse(s) == [i \in 1 .. Len(s) |-> s[Len(s) + 1 - i]]
Rotate(s) == IF s = << >> THEN s ELSE Tail(s) \o <<Head(s)>>

\* random.shuffle: three of the orders it may produce
Shuffles(s) == {s, Reverse(s), Rotate(s)}

\* steps 4 and 5 of generate on the shuffled list
PadAndTruncate(shuffled, count) ==
    LET padded == IF Len(shuffled) < count
                  THEN shuffled \o Take(_get_default_questions,
                                        count - Len(shuffled))
                  ELSE shuffled
    IN  Take(padded, count)

---------------------------------------------------------------------------
(* Operations on the store *)

\* <<answers, correct answers>> given so far for a (word, language)
Answered(key) == IF key \in DOMAIN answered THEN answered[key] ELSE <<0, 0>>

RECURSIVE SumCalls(_)
SumCalls(S) ==
    IF S = {} THEN 0
    ELSE LET k == CHOOSE x \in S : TRUE
         IN  answered[k][1] + SumCalls(S \ {k})

\* the calls of update_word_progress made so far
Updates == SumCalls(DOMAIN answered)

Idle == [pc |-> "idle"]

Init ==
    /\ store = << >>
    /\ clock = 0
    /\ answered = << >>
    /\ last = [op |-> "init"]
    /\ ai_service = TRUE
    /\ gen = Idle
    /\ user_md = << >>
    /\ question_history = << >>
    /\ threads = << >>

\* ReviewStrategy.update_word_progress(word, language, is_correct, time_spent)
UpdateWordProgress(word, language, is_correct, time_spent, elapsed) ==
    /\ clock <= MaxClock
    /\ LET found == _get_word_data(store, word, language)
           new_data == NewWordData(found, word, language, is_correct,
                                   time_spent, clock, clock + elapsed)
       IN  /\ store' = _save_word_data(store, new_data)
           /\ last' = [op         |-> "update_word_progress",
                       word       |-> word,
                       language   |-> language,
                       is_correct |-> is_correct,
                       found      |-> found # << >>,
                       quality    |-> quality_from_performance(is_correct, time_spent),
                       old_ef     |-> IF found = << >> THEN InitialEF
                                      ELSE found[1].ease_factor,
                       now        |-> clock + elapsed,
                       saved      |-> new_data]
    /\ clock' = clock + elapsed
    /\ answered' = [k \in DOMAIN answered \cup {<<word, language>>} |->
                      IF k = <<word, language>>
                      THEN <<Answered(k)[1] + 1,
                             Answered(k)[2] + (IF is_correct THEN 1 ELSE 0)>>
                      ELSE answered[k]]
    /\ UNCHANGED <<ai_service, gen, user_md,
                 question_history,
                 threads>>

\* ReviewStrategy.get_words_due_for_review(language, limit)
GetWordsDueForReview(language, limit) ==
    /\ clock <= MaxClock
    /\ last' = [op       |-> "get_words_due_for_review",
                language |-> language,
                limit    |-> limit,
                now      |-> clock,
                ret      |-> get_words_due_for_review(store, language, limit, clock)]
    /\ UNCHANGED <<store, clock, answered, ai_service, gen, user_md,
                 question_history,
                 threads>>

\* ReviewStrategy.get_mastery_stats(language)
GetMasteryStats(language) ==
    /\ last' = [op       |-> "get_mastery_stats",
                language |-> language,
                ret      |-> get_mastery_stats(store, language)]
    /\ UNCHANGED <<store, clock, answered, ai_service, gen, user_md,
                   question_history,
                   threads>>

\* a row is as update_word_progress writes it
WellFormed(row) == row.next_review # BadTime /\ row.mastery_level # BadFloat

\* the file is damaged from outside: one field of row i becomes
\* unparseable text; field is "next_review" or "mastery_level"
Damage(i, field) ==
    /\ i \in 1 .. Len(store)
    /\ \A j \in 1 .. Len(store) : WellFormed(store[j])
    /\ store' = IF field = "next_review"
                THEN [store EXCEPT ![i].next_review = BadTime]
                ELSE [store EXCEPT ![i].mastery_level = BadFloat]
    /\ last' = [op |-> "damage", row |-> i, field |-> field]
    /\ UNCHANGED <<clock, answered, ai_service, gen, user_md,
                   question_history,
                   threads>>

\* time passes between calls
Tick ==
    /\ clock < MaxClock
    /\ clock' = clock + 1
    /\ UNCHANGED <<store, answered, last, ai_service, gen, user_md,
                 question_history,
                 threads>>

\* the scheduler on its own: a caller about to call one of the two static
\* methods of SM2Algorithm, or an empty store about to be drilled
InitSM2 ==
    /\ store = << >>
    /\ clock = 0
    /\ answered = << >>
    /\ \/ \E quality \in Qualities, easiness_factor \in EaseValues,
             interval \in Intervals, repetitions \in Repetitions :
             last = [op              |-> "calculate_next_review",
                     pc              |-> "called",
                     quality         |-> quality,
                     easiness_factor |-> easiness_factor,
                     interval        |-> interval,
                     repetitions     |-> repetitions]
       \/ \E is_correct \in BOOLEAN, time_spent \in TimeSpentValues :
             last = [op         |-> "quality_from_performance",
                     pc         |-> "called",
                     is_correct |-> is_correct,
                     time_spent |-> time_spent]
       \/ last = [op |-> "init"]
    /\ ai_service = TRUE
    /\ gen = Idle
    /\ user_md = << >>
    /\ question_history = << >>
    /\ threads = << >>

\* SM2Algorithm.calculate_next_review(quality, easiness_factor, interval, repetitions)
CalculateNextReview ==
    /\ last.op = "calculate_next_review" /\ last.pc = "called"
    /\ last' = [op              |-> "calculate_next_review",
                pc              |-> "returned",
                quality         |-> last.quality,
                easiness_factor |-> last.easiness_factor,
                interval        |-> last.interval,
                repetitions     |-> last.repetitions,
                now             |-> clock,
                ret             |-> calculate_next_review(last.quality,
                                       last.easiness_factor, last.interval,
                                       last.repetitions, clock)]
    /\ UNCHANGED <<store, clock, answered, ai_service, gen, user_md,
                 question_history,
                 threads>>

\* SM2Algorithm.quality_from_performance(is_correct, time_spent)
QualityFromPerformance ==
    /\ last.op = "quality_from_performance" /\ last.pc = "called"
    /\ last' = [op         |-> "quality_from_performance",
                pc         |-> "returned",
                is_correct |-> last.is_correct,
                time_spent |-> last.time_spent,
                ret        |-> quality_from_performance(last.is_correct,
                                                        last.time_spent)]
    /\ UNCHANGED <<store, clock, answered, ai_service, gen, user_md,
                 question_history,
                 threads>>

\* the calls any caller of ReviewStrategy may make
Next ==
    \/ \E word \in Words, language \in Languages, is_correct \in BOOLEAN,
          time_spent \in TimeSpentValues, elapsed \in {0, 1} :
          /\ Updates < MaxUpdates
          /\ UpdateWordProgress(word, language, is_correct, time_spent, elapsed)
    \/ Tick

Spec == Init /\ [][Next]_vars

\* the calls the application makes: submit_answer passes no time_spent
\* (app.py:578), generate scans for due words (question_generator.py:66)
NextApp ==
    \/ \E word \in Words, language \in Languages, is_correct \in BOOLEAN,
          elapsed \in {0, 1} :
          /\ Updates < MaxUpdates
          /\ UpdateWordProgress(word, language, is_correct, None, elapsed)
    \/ \E language \in Languages, limit \in Limits :
          GetWordsDueForReview(language, limit)
    \/ Tick

SpecApp == Init /\ [][NextApp]_vars

\* a drill: many answers in a row to the words of one language
Drill ==
    \E word \in Words, is_correct \in BOOLEAN, time_spent \in TimeSpentValues :
       /\ last.op \in {"init", "update_word_progress"}
       /\ Updates < MaxDrill
       /\ UpdateWordProgress(word, "en", is_correct, time_spent, 0)

\* the scheduler: direct calls of the static methods, and drills
NextSM2 ==
    \/ CalculateNextReview
    \/ QualityFromPerformance
    \/ Drill

SpecSM2 == InitSM2 /\ [][NextSM2]_vars

\* the record of the i-th practice word as its last answer left it:
\* shape is <<next_review, correct_attempts, total_attempts>>; every
\* answer was given without a time, so a right one left the ease factor
\* alone and a wrong one took 0.32 off
ScanRow(i, language, shape) ==
    [word             |-> PracticeWords[i],
     language         |-> language,
     total_attempts   |-> shape[3],
     correct_attempts |-> shape[2],
     last_review      |-> shape[1] - Day,
     next_review      |-> shape[1],
     ease_factor      |-> Max(MIN_EF, InitialEF - 32 * (shape[3] - shape[2])),
     interval         |-> 1,
     mastery_level    |-> Ratio(shape[2], shape[3])]

ScanShapes == {<<1, 1, 1>>, <<2, 4, 5>>, <<1, 1, 3>>, <<4, 0, 1>>}

\* the progress files of n records over the given languages and shapes
FilesOf(n, languages, shapes) ==
    {[i \in 1 .. n |-> ScanRow(i, f[i][1], f[i][2])] :
        f \in [1 .. n -> languages \X shapes]}

ScanFiles == UNION {FilesOf(n, Languages, ScanShapes) : n \in 0 .. MaxRows}

\* a progress file left by earlier practice, about to be scanned
InitScan ==
    /\ store \in ScanFiles
    /\ clock = 1
    /\ answered = << >>
    /\ last = [op |-> "init"]
    /\ ai_service = TRUE
    /\ gen = Idle
    /\ user_md = << >>
    /\ question_history = << >>
    /\ threads = << >>

\* the two scans of ReviewStrategy
NextScan ==
    \/ \E language \in Languages, limit \in Limits :
          GetWordsDueForReview(language, limit)
    \/ \E language \in Languages \cup {""} : GetMasteryStats(language)
    \/ Tick

SpecScan == InitScan /\ [][NextScan]_vars

\* the files that get damaged: records due at once or not yet due
DamagedShapes == {<<1, 1, 1>>, <<4, 0, 1>>}

InitDamaged ==
    /\ store \in UNION {FilesOf(n, Languages, DamagedShapes) : n \in 0 .. MaxRows}
    /\ clock = 1
    /\ answered = << >>
    /\ last = [op |-> "init"]
    /\ ai_service = TRUE
    /\ gen = Idle
    /\ user_md = << >>
    /\ question_history = << >>
    /\ threads = << >>

\* the two scans over a file that may get damaged
NextDamaged ==
    \/ \E i \in 1 .. MaxRows, field \in {"next_review", "mastery_level"} :
          Damage(i, field)
    \/ \E language \in Languages, limit \in Limits :
          GetWordsDueForReview(language, limit)
    \/ \E language \in Languages \cup {""} : GetMasteryStats(language)
    \/ Tick

SpecDamaged == InitDamaged /\ [][NextDamaged]_vars

---------------------------------------------------------------------------
(* QuestionGenerator.generate *)

\* generate(user_config, count) starts: the due words of the configured
\* language are read; the review loop runs when there are some and the
\* external source is available.  replies and fresh keep what the source
\* answered to the requests of this call, calls counts the requests
Generate(language, count) ==
    /\ gen.pc \in {"idle", "done"}
    /\ clock <= MaxClock
    /\ LET words_due == get_words_due_for_review(store, language, DueLimit, clock)
       IN  gen' = [pc            |-> IF Len(words_due) > 0 /\ ai_service
                                     THEN "review" ELSE "fresh",
                   count         |-> count,
                   language      |-> language,
                   words_due     |-> words_due,
                   i             |-> 1,
                   calls         |-> 0,
                   replies       |-> << >>,
                   fresh         |-> << >>,
                   new_questions |-> << >>,
                   all_questions |-> << >>,
                   ret           |-> << >>]

\* generate called on its own, with a user_config that names a language
GenStart(language, count) ==
    /\ Generate(language, count)
    /\ UNCHANGED <<store, clock, answered, last, ai_service, user_md,
                 question_history,
                 threads>>

\* one round of _generate_review_questions: the source is asked about the
\* next due word
GenReviewWord(reply) ==
    /\ gen.pc = "review"
    /\ LET word == gen.words_due[gen.i].word
       IN  /\ reply \in AIReplies(word)
           /\ gen' = [gen EXCEPT
                      !.all_questions = @ \o ReviewQuestionsFor(word, reply),
                      !.calls = @ + ReviewCallsFor(reply),
                      !.replies = Append(@, reply),
                      !.i = @ + 1,
                      !.pc = IF gen.i = Len(gen.words_due) THEN "fresh" ELSE "review"]
    /\ UNCHANGED <<store, clock, answered, last, ai_service, user_md,
                 question_history,
                 threads>>

\* step 3 of generate: the fresh questions, when any are still needed
GenFresh(article, reply) ==
    /\ gen.pc = "fresh"
    /\ LET new_count == gen.count - Len(gen.all_questions)
           new_questions == IF new_count > 0
                            THEN _generate_new_questions(new_count, article, reply)
                            ELSE << >>
       IN  gen' = [gen EXCEPT
                   !.all_questions = @ \o new_questions,
                   !.new_questions = new_questions,
                   !.calls = IF new_count > 0 /\ article /\ ai_service
                             THEN @ + 1 ELSE @,
                   !.fresh = IF new_count > 0 /\ article /\ ai_service
                             THEN <<reply>> ELSE << >>,
                   !.pc = "shuffle"]
    /\ UNCHANGED <<store, clock, answered, last, ai_service, user_md,
                 question_history,
                 threads>>

\* steps 4 to 6 of generate: shuffle, pad from the bank, truncate, return;
\* what is left of the call is its arguments and the list it returned
GenFinish(shuffled) ==
    /\ gen.pc = "shuffle"
    /\ shuffled \in Shuffles(gen.all_questions)
    /\ gen' = [pc       |-> "done",
               count    |-> gen.count,
               language |-> gen.language,
               ret      |-> PadAndTruncate(shuffled, gen.count)]
    /\ UNCHANGED <<store, clock, answered, last, ai_service, user_md,
                 question_history,
                 threads>>

\* before sessions are composed, the next practice word is answered once
Practice ==
    /\ gen.pc = "idle"
    /\ clock = 0
    /\ Len(store) < MaxStored /\ Len(store) < Len(PracticeWords)
    /\ \E is_correct \in BOOLEAN :
          UpdateWordProgress(PracticeWords[Len(store) + 1], "en", is_correct, None, 0)

\* the process starts with or without an API key
InitGen ==
    /\ store = << >>
    /\ clock = 0
    /\ answered = << >>
    /\ last = [op |-> "init"]
    /\ ai_service \in BOOLEAN
    /\ gen = Idle
    /\ user_md = << >>
    /\ question_history = << >>
    /\ threads = << >>

NextGen ==
    \/ Practice
    \/ gen.pc = "idle" /\ Tick
    \/ \E language \in Languages, count \in TargetCounts : GenStart(language, count)
    \/ /\ gen.pc = "review"
       /\ \E reply \in AIReplies(gen.words_due[gen.i].word) : GenReviewWord(reply)
    \/ \E article \in BOOLEAN, reply \in AIReplies("fresh") : GenFresh(article, reply)
    \/ /\ gen.pc = "shuffle"
       /\ \E shuffled \in Shuffles(gen.all_questions) : GenFinish(shuffled)

SpecGen == InitGen /\ [][NextGen]_vars

\* a store of up to MaxDue words of one language, each of them due
InitDue ==
    /\ store \in UNION {FilesOf(n, {"en"}, {<<1, 1, 1>>}) : n \in 0 .. MaxDue}
    /\ clock = 1
    /\ answered = << >>
    /\ last = [op |-> "init"]
    /\ ai_service = TRUE
    /\ gen = Idle
    /\ user_md = << >>
    /\ question_history = << >>
    /\ threads = << >>

\* sessions of the application's size composed over such a store
NextDue ==
    \/ GenStart("en", SessionCount)
    \/ /\ gen.pc = "review"
       /\ \E reply \in BasicReplies(gen.words_due[gen.i].word) :
             GenReviewWord(reply)
    \/ \E article \in BOOLEAN, reply \in BasicReplies("fresh") :
          GenFresh(article, reply)
    \/ /\ gen.pc = "shuffle"
       /\ GenFinish(gen.all_questions)

SpecDue == InitDue /\ [][NextDue]_vars

---------------------------------------------------------------------------
(* app.py: the profile *)

\* A configuration is a record: its fields are the keys of the dictionary.
\* learning_languages is kept as the sequence of its language names, in
\* the order of the dictionary; the key the generator and submit_answer
\* read for the language (the Chinese for "learning language") is the
\* field study_language.  The three lines setup writes after
\* current_language, and user_profile.csv, which no operation reads back,
\* are left out.

\* dict.get(key, default)
Get(config, key, default) ==
    IF key \in DOMAIN config THEN config[key] ELSE default

\* config[key] = value
With(config, key, value) ==
    [k \in DOMAIN config \cup {key} |-> IF k = key THEN value ELSE config[k]]

\* a file of the old format: one language under the key study_language
LegacyFile(language) == <<[study_language |-> language]>>

WideName == "zh<WIDE COLON>tw"  \* a name holding the fullwidth colon
PaddedName == " fr"             \* a name that starts with a blank
NoCurrent == "None"             \* str(None), what the f-string writes for None

\* value.strip()
Strip(value) == IF value = PaddedName THEN "fr" ELSE value

\* the fullwidth colon is in the text
HasWideColon(value) == value = WideName

\* the line "- key: value" of the file holds a fullwidth colon: the parser
\* splits such a line there and not at ": "
SplitsWide(key, value) ==
    IF key = "learning_languages"
    THEN \E i \in 1 .. Len(value) : HasWideColon(value[i])
    ELSE HasWideColon(value)

\* the loop over the lines of the file: a line split at ": " gives its key
\* and its stripped value; a line split at the fullwidth colon gives a
\* key no operation reads
ParseLines(lines) ==
    [key \in {k \in DOMAIN lines : ~SplitsWide(k, lines[k])} |->
        IF key = "learning_languages" THEN lines[key]
        ELSE Strip(lines[key])]

\* get_user_profile(): << >> for None, else <<config>>
get_user_profile(file) ==
    IF file = << >> THEN << >>
    ELSE LET config == ParseLines(file[1])
         IN  IF "learning_languages" \in DOMAIN config THEN <<config>>
             ELSE IF "study_language" \in DOMAIN config
                  THEN <<With(With(config, "learning_languages",
                                   <<config.study_language>>),
                              "current_language", config.study_language)>>
             ELSE <<With(config, "learning_languages", << >>)>>

\* save_user_profile(data): the file it writes
save_user_profile(preferred_language) ==
    <<[learning_languages |-> <<preferred_language>>,
       current_language   |-> preferred_language]>>

\* the file the language routes write
ProfileFile(learning_languages, current_language) ==
    <<[learning_languages |-> learning_languages,
       current_language   |-> current_language]>>

\* del learning_languages[language]
Without(learning_languages, language) ==
    SelectSeq(learning_languages, LAMBDA name : name # language)

(* app.py: the routes *)

\* an answer was logged and its word is not yet passed to the scheduler
Submitting == last.op = "submit_answer" /\ last.pc = "logged"

\* POST /api/setup
Setup(preferred_language) ==
    /\ ~Submitting
    /\ user_md' = save_user_profile(preferred_language)
    /\ last' = [op |-> "setup", preferred_language |-> preferred_language]
    /\ UNCHANGED <<store, clock, answered, ai_service, gen, question_history, threads>>

\* POST /api/generate_questions up to the call of generate: 400 without a
\* profile; else generate starts and its result is the 200 response
GenerateQuestions ==
    /\ ~Submitting
    /\ LET user_config == get_user_profile(user_md)
       IN  IF user_config = << >>
           THEN /\ last' = [op |-> "generate_questions", status |-> 400,
                            user_config |-> user_config]
                /\ UNCHANGED gen
           ELSE /\ Generate(Get(user_config[1], "study_language",
                                DefaultLanguage), SessionCount)
                /\ last' = [op |-> "generate_questions", status |-> 200,
                            user_config |-> user_config]
    /\ UNCHANGED <<store, clock, answered, ai_service, user_md,
                   question_history,
                   threads>>

\* POST /api/submit_answer, first half: save_question_history appends the
\* row of the answer
SubmitAnswerLog(word, is_correct) ==
    /\ ~Submitting
    /\ clock <= MaxClock
    /\ Len(question_history) < MaxSubmits
    /\ question_history' = Append(question_history,
                                  [word       |-> word,
                                   is_correct |-> is_correct,
                                   timestamp  |-> clock])
    /\ last' = [op |-> "submit_answer", pc |-> "logged", word |-> word,
                is_correct |-> is_correct]
    /\ UNCHANGED <<store, clock, answered, ai_service, gen, user_md, threads>>

\* POST /api/submit_answer, second half: "if word:" the word goes to
\* update_word_progress under the language of the profile; then the
\* response is sent
SubmitAnswerUpdate(elapsed) ==
    /\ Submitting
    /\ LET user_config == get_user_profile(user_md)
           language == IF user_config = << >> THEN DefaultLanguage
                       ELSE Get(user_config[1], "study_language",
                                DefaultLanguage)
       IN  IF last.word # ""
           THEN UpdateWordProgress(last.word, language, last.is_correct,
                                   None, elapsed)
           ELSE /\ last' = [op |-> "submit_answer", pc |-> "returned",
                            word |-> last.word,
                            is_correct |-> last.is_correct]
                /\ UNCHANGED <<store, clock, answered, ai_service, gen, threads>>
    /\ UNCHANGED <<user_md, question_history, threads>>

\* the 400 response of a language route
Rejected(op, language) ==
    /\ last' = [op |-> op, language |-> language, status |-> 400]
    /\ UNCHANGED user_md

\* the 200 response of a language route, after the file is rewritten
Accepted(op, language, learning_languages, current_language) ==
    /\ user_md' = ProfileFile(learning_languages, current_language)
    /\ last' = [op |-> op, language |-> language, status |-> 200]

\* POST /api/languages/add
AddLanguage(language) ==
    /\ ~Submitting
    /\ LET user_config == get_user_profile(user_md)
           learning_languages == user_config[1].learning_languages
       IN  IF language = "" \/ user_config = << >>
           THEN Rejected("add_language", language)
           ELSE IF InSeq(language, learning_languages)
           THEN Rejected("add_language", language)
           ELSE Accepted("add_language", language,
                         Append(learning_languages, language),
                         Get(user_config[1], "current_language", language))
    /\ UNCHANGED <<store, clock, answered, ai_service, gen, question_history,
                   threads>>

\* POST /api/languages/remove
RemoveLanguage(language) ==
    /\ ~Submitting
    /\ LET user_config == get_user_profile(user_md)
           learning_languages == user_config[1].learning_languages
           remaining == Without(learning_languages, language)
           current_language == Get(user_config[1], "current_language",
                                   NoCurrent)
       IN  IF language = "" \/ user_config = << >>
           THEN Rejected("remove_language", language)
           ELSE IF Len(learning_languages) <= 1
           THEN Rejected("remove_language", language)
           ELSE IF InSeq(language, learning_languages)
           THEN Accepted("remove_language", language, remaining,
                         IF current_language = language THEN remaining[1]
                         ELSE current_language)
           ELSE Rejected("remove_language", language)
    /\ UNCHANGED <<store, clock, answered, ai_service, gen, question_history,
                   threads>>

\* POST /api/languages/switch
SwitchLanguage(language) ==
    /\ ~Submitting
    /\ LET user_config == get_user_profile(user_md)
           learning_languages == user_config[1].learning_languages
       IN  IF language = "" \/ user_config = << >>
           THEN Rejected("switch_language", language)
           ELSE IF ~InSeq(language, learning_languages)
           THEN Rejected("switch_language", language)
           ELSE Accepted("switch_language", language, learning_languages,
                         language)
    /\ UNCHANGED <<store, clock, answered, ai_service, gen, question_history,
                   threads>>

\* the application starts with no profile or with one of the old format
InitWeb ==
    /\ store = << >>
    /\ clock = 0
    /\ answered = << >>
    /\ last = [op |-> "init"]
    /\ ai_service \in BOOLEAN
    /\ gen = Idle
    /\ user_md \in {<< >>, LegacyFile("fr")}
    /\ question_history = << >>
    /\ threads = << >>

\* the requests a client may send, served one at a time
NextWeb ==
    \/ \E preferred_language \in Languages \cup {""} : Setup(preferred_language)
    \/ GenerateQuestions
    \/ /\ gen.pc = "review"
       /\ \E reply \in BasicReplies(gen.words_due[gen.i].word) : GenReviewWord(reply)
    \/ \E article \in BOOLEAN, reply \in BasicReplies("fresh") : GenFresh(article, reply)
    \/ /\ gen.pc = "shuffle"
       /\ GenFinish(gen.all_questions)
    \/ \E word \in SubmittedWords, is_correct \in BOOLEAN :
          SubmitAnswerLog(word, is_correct)
    \/ SubmitAnswerUpdate(0)
    \/ ~Submitting /\ gen.pc \in {"idle", "done"} /\ Tick

SpecWeb == InitWeb /\ [][NextWeb]_vars

\* the language names a client sends: plain ones, one that starts with a
\* blank, one that holds a fullwidth colon, and the empty name
ProfileNames == {"en", "fr", PaddedName, WideName, ""}

\* the application starts with no profile
InitProfile ==
    /\ store = << >>
    /\ clock = 0
    /\ answered = << >>
    /\ last = [op |-> "init"]
    /\ ai_service = TRUE
    /\ gen = Idle
    /\ user_md = << >>
    /\ question_history = << >>
    /\ threads = << >>

\* setup and the three language routes, served one at a time
NextProfile ==
    \E language \in ProfileNames :
       \/ Setup(language)
       \/ AddLanguage(language)
       \/ RemoveLanguage(language)
       \/ SwitchLanguage(language)

SpecProfile == InitProfile /\ [][NextProfile]_vars

\* a store that holds up to two due words, of either language, and no
\* profile or one of the old format
InitSession ==
    /\ store \in UNION {FilesOf(n, Languages, {<<1, 1, 1>>}) : n \in 0 .. 2}
    /\ clock = 1
    /\ answered = << >>
    /\ last = [op |-> "init"]
    /\ ai_service = TRUE
    /\ gen = Idle
    /\ user_md \in {<< >>, LegacyFile("fr")}
    /\ question_history = << >>
    /\ threads = << >>

\* the user sets up, adds languages and switches between them, and asks
\* for sessions; requests are served one at a time
NextSession ==
    \/ /\ gen.pc \in {"idle", "done"}
       /\ \E language \in Languages :
             \/ Setup(language)
             \/ AddLanguage(language)
             \/ SwitchLanguage(language)
    \/ GenerateQuestions
    \/ /\ gen.pc = "review"
       /\ \E reply \in BasicReplies(gen.words_due[gen.i].word) :
             GenReviewWord(reply)
    \/ \E reply \in BasicReplies("fresh") : GenFresh(TRUE, reply)
    \/ /\ gen.pc = "shuffle"
       /\ GenFinish(gen.all_questions)

SpecSession == InitSession /\ [][NextSession]_vars

---------------------------------------------------------------------------
(* Concurrent calls of update_word_progress *)

\* The development server serves each request in a thread of its own and
\* ReviewStrategy takes no lock, so two calls may interleave.  A call is
\* three steps on the file: _get_word_data reads the record,
\* _save_word_data reads every row, _save_word_data writes every row.  The
\* rewrite (open, writeheader, writerows, close) is taken as one step.

Threads == {1, 2}
RaceWords == {"apple", "bread"}

\* the other of the two threads
Other(t) == CHOOSE u \in Threads : u # t

\* a request calls update_word_progress(word, language, is_correct)
Call(t, word, language, is_correct) ==
    /\ threads[t].pc = "idle"
    /\ threads' = [threads EXCEPT ![t] =
                     [pc         |-> "get",
                      word       |-> word,
                      language   |-> language,
                      is_correct |-> is_correct]]
    /\ UNCHANGED <<store, clock, answered, last, ai_service, gen, user_md,
                   question_history>>

\* word_data = self._get_word_data(word, language), and the record the
\* call builds from it
GetWordData(t) ==
    /\ threads[t].pc = "get"
    /\ LET call == threads[t]
           found == _get_word_data(store, call.word, call.language)
       IN  threads' = [threads EXCEPT ![t] =
                         [pc         |-> "read",
                          word       |-> call.word,
                          language   |-> call.language,
                          is_correct |-> call.is_correct,
                          found      |-> found,
                          word_data  |-> NewWordData(found, call.word,
                                            call.language, call.is_correct,
                                            None, clock, clock)]]
    /\ UNCHANGED <<store, clock, answered, last, ai_service, gen, user_md,
                   question_history>>

\* _save_word_data, first half: rows = list(reader), then the record
\* replaces the first row of its key or is appended
SaveRead(t) ==
    /\ threads[t].pc = "read"
    /\ LET call == threads[t]
       IN  threads' = [threads EXCEPT ![t] =
                         [pc         |-> "write",
                          word       |-> call.word,
                          language   |-> call.language,
                          is_correct |-> call.is_correct,
                          found      |-> call.found,
                          word_data  |-> call.word_data,
                          read       |-> ReadRows(store),
                          rows       |-> _save_word_data(store, call.word_data)]]
    /\ UNCHANGED <<store, clock, answered, last, ai_service, gen, user_md,
                   question_history>>

\* faulty variant: the writer keeps the rows that reached the file after
\* it read
SaveWrite_Merge(t) ==
    /\ threads[t].pc = "write"
    /\ LET call == threads[t]
           late == SelectSeq(ReadRows(store),
                             LAMBDA row : \A i \in 1 .. Len(call.rows) :
                                <<call.rows[i].word, call.rows[i].language>>
                                   # <<row.word, row.language>>)
       IN  /\ store' = call.rows \o late
           /\ threads' = [threads EXCEPT ![t] =
                            [call EXCEPT !.pc = "done"]]
           /\ last' = [op         |-> "update_word_progress",
                       thread     |-> t,
                       word       |-> call.word,
                       language   |-> call.language,
                       is_correct |-> call.is_correct,
                       found      |-> call.found # << >>,
                       saved      |-> call.word_data]
           /\ answered' = [k \in DOMAIN answered
                                   \cup {<<call.word, call.language>>} |->
                             IF k = <<call.word, call.language>>
                             THEN <<Answered(k)[1] + 1,
                                    Answered(k)[2]
                                      + (IF call.is_correct THEN 1 ELSE 0)>>
                             ELSE answered[k]]
    /\ UNCHANGED <<clock, ai_service, gen, user_md, question_history>>

\* _save_word_data, second half: the file is rewritten with the rows the
\* call holds, and update_word_progress returns
SaveWrite(t) ==
    /\ threads[t].pc = "write"
    /\ LET call == threads[t]
       IN  /\ store' = call.rows
           /\ threads' = [threads EXCEPT ![t] =
                            [call EXCEPT !.pc = "done"]]
           /\ last' = [op         |-> "update_word_progress",
                       thread     |-> t,
                       word       |-> call.word,
                       language   |-> call.language,
                       is_correct |-> call.is_correct,
                       found      |-> call.found # << >>,
                       saved      |-> call.word_data]
           /\ answered' = [k \in DOMAIN answered
                                   \cup {<<call.word, call.language>>} |->
                             IF k = <<call.word, call.language>>
                             THEN <<Answered(k)[1] + 1,
                                    Answered(k)[2]
                                      + (IF call.is_correct THEN 1 ELSE 0)>>
                             ELSE answered[k]]
    /\ UNCHANGED <<clock, ai_service, gen, user_md, question_history>>

\* the answers that left the records of a file: one call per attempt
AnsweredFor(file) ==
    [k \in {<<file[i].word, file[i].language>> : i \in 1 .. Len(file)} |->
       LET i == CHOOSE j \in 1 .. Len(file) :
                   <<file[j].word, file[j].language>> = k
       IN  <<file[i].total_attempts, file[i].correct_attempts>>]

\* two requests arrive over a store that earlier answers left
InitRace ==
    /\ store \in UNION {FilesOf(n, {"en"}, {<<1, 1, 1>>, <<4, 0, 1>>}) :
                           n \in 0 .. 1}
    /\ clock = 1
    /\ answered = AnsweredFor(store)
    /\ last = [op |-> "init"]
    /\ ai_service = TRUE
    /\ gen = Idle
    /\ user_md = << >>
    /\ question_history = << >>
    /\ threads = [t \in Threads |-> [pc |-> "idle"]]

\* every interleaving of the steps of the two calls
NextRace ==
    \E t \in Threads :
       \/ \E word \in RaceWords, is_correct \in BOOLEAN :
             Call(t, word, "en", is_correct)
       \/ GetWordData(t)
       \/ SaveRead(t)
       \/ SaveWrite(t)

SpecRace == InitRace /\ [][NextRace]_vars

---------------------------------------------------------------------------
(* Properties *)

IsCalc == last.op = "calculate_next_review" /\ last.pc = "returned"
IsQuality == last.op = "quality_from_performance" /\ last.pc = "returned"
IsUpdate == last.op = "update_word_progress"
IsScan == last.op = "get_words_due_for_review"

Rows == ReadRows(store)
RowKey(row) == <<row.word, row.language>>

IsDone == gen.pc = "done"

HasQuestion(questions, text) ==
    \E i \in 1 .. Len(questions) : questions[i].question = text

\* C1: generate(user_config, count) returns exactly count questions, for
\* every count >= 0, every set of due words and every outcome of the
\* external source.
C1_ExactCount ==
    IsDone => Len(gen.ret) = gen.count

\* C2: every multiple_choice question generate returns has exactly 4
\* options and its answer is one of them.
C2_FourOptions ==
    IsDone =>
        \A i \in 1 .. Len(gen.ret) :
            gen.ret[i].type = MC =>
                /\ "options" \in DOMAIN gen.ret[i]
                /\ Len(gen.ret[i].options) = 4
                /\ InSeq(gen.ret[i].answer, gen.ret[i].options)

\* a session holding a generated review question, a placeholder review
\* question, a generated fresh question and a question of the bank, each
\* of them multiple choice
C2_Witness ==
    /\ IsDone
    /\ HasQuestion(gen.ret, AiMC("apple").question)
    /\ HasQuestion(gen.ret, _get_default_review_question("bread").question)
    /\ HasQuestion(gen.ret, AiMC("fresh").question)
    /\ HasQuestion(gen.ret, _get_default_questions[1].question)

\* C3: get_words_due_for_review(language, limit) returns at most limit
\* records, limit = 0 included, and no record whose next_review is later
\* than the time of the call.
C3_DueWithinLimit ==
    IsScan =>
        /\ Len(last.ret) <= last.limit
        /\ \A i \in 1 .. Len(last.ret) : last.ret[i].next_review <= last.now

\* C4: calculate_next_review never returns an ease factor below 1.3 when
\* it is given one of at least 1.3, for every quality 0..5; and every
\* stored record has an ease factor of at least 1.3.
C4_EaseFloor ==
    /\ IsCalc /\ last.easiness_factor >= 130 => last.ret.ef >= 130
    /\ \A i \in 1 .. Len(store) : store[i].ease_factor >= 130

\* a wrong answer would take the stored ease factor below 1.3 and the
\* floor holds it there
C4_Witness ==
    /\ IsUpdate /\ last.quality = 2
    /\ last.old_ef - 32 < 130
    /\ last.saved.ease_factor = 130
    /\ \E i \in 1 .. Len(store) : store[i] = last.saved

\* C5: every stored record of a (word, language) that received N answers,
\* K of them correct, has total_attempts = N, correct_attempts = K,
\* 0 <= K <= N and mastery_level = K/N.
C5_AttemptsCounted ==
    \A i \in 1 .. Len(Rows) :
        LET N == Answered(RowKey(Rows[i]))[1]
            K == Answered(RowKey(Rows[i]))[2]
        IN  /\ Rows[i].total_attempts = N
            /\ Rows[i].correct_attempts = K
            /\ 0 <= K /\ K <= N /\ N > 0
            /\ Rows[i].mastery_level = Ratio(K, N)

\* C6: quality_from_performance returns 2 for a wrong answer whatever the
\* time; for a right answer 4 without a time, 5 under 3 seconds, 4 from 3
\* to under 10 seconds, 3 from 10 seconds on.
C6_QualityTable ==
    IsQuality =>
        /\ last.ret \in {2, 3, 4, 5}
        /\ ~last.is_correct => last.ret = 2
        /\ last.is_correct /\ last.time_spent = None => last.ret = 4
        /\ last.is_correct /\ last.time_spent \in 0 .. 2 => last.ret = 5
        /\ last.is_correct /\ last.time_spent \in 3 .. 9 => last.ret = 4
        /\ last.is_correct /\ last.time_spent >= 10 => last.ret = 3

\* a right answer given in exactly 10 seconds
C6_Witness ==
    IsQuality /\ last.is_correct /\ last.time_spent = 10 /\ last.ret = 3

\* the change of the ease factor per quality, in hundredths
EaseDelta(q) ==
    CASE q = 5 -> 10
      [] q = 4 -> 0
      [] q = 3 -> -14
      [] q = 2 -> -32
      [] q = 1 -> -54
      [] q = 0 -> -80

\* C7: the new ease factor is max(1.3, e + d(q)) with d = +0.10, 0, -0.14,
\* -0.32, -0.54, -0.80 for q = 5 .. 0, on success (q >= 3) and on reset.
C7_EaseUpdate ==
    IsCalc =>
        last.ret.ef = Max(130, last.easiness_factor + EaseDelta(last.quality))

\* a reset (quality 2) that lowers the ease factor by 0.32, above the floor
C7_Witness ==
    /\ IsCalc /\ last.quality = 2 /\ last.easiness_factor = 250
    /\ last.ret.ef = 218 /\ last.ret.repetitions = 0

\* C8: for quality >= 3 the repetitions grow by one and the interval is 1
\* at the first repetition, 6 at the second, and from the third on the
\* floor of the old interval times the new ease factor.
C8_SuccessInterval ==
    IsCalc /\ last.quality >= 3 =>
        /\ last.ret.repetitions = last.repetitions + 1
        /\ last.ret.repetitions = 1 => last.ret.interval = 1
        /\ last.ret.repetitions = 2 => last.ret.interval = 6
        /\ last.ret.repetitions >= 3 =>
               /\ last.ret.interval * 100 <= last.interval * last.ret.ef
               /\ last.interval * last.ret.ef < (last.ret.interval + 1) * 100

\* the third success in a row at quality 5: 6 days times 2.6 is 15.6
C8_Witness ==
    /\ IsCalc /\ last.quality = 5 /\ last.easiness_factor = 250
    /\ last.interval = 6 /\ last.repetitions = 2
    /\ last.ret.ef = 260 /\ last.ret.interval = 15 /\ last.ret.repetitions = 3

\* C9: a quality below 3 gives repetitions 0 and interval 1 whatever the
\* prior repetitions, interval and ease factor; a wrong answer passed to
\* update_word_progress stores interval 1.
C9_WrongAnswerResets ==
    /\ IsCalc /\ last.quality < 3 =>
           last.ret.repetitions = 0 /\ last.ret.interval = 1
    /\ IsUpdate /\ ~last.is_correct =>
           /\ last.saved.interval = 1
           /\ \E i \in 1 .. Len(store) : store[i] = last.saved

\* a reset from a long schedule
C9_Witness ==
    /\ IsCalc /\ last.quality = 2
    /\ last.repetitions >= 2 /\ last.interval >= 6
    /\ last.ret.repetitions = 0 /\ last.ret.interval = 1

\* C10: the store holds at most one record per (word, language).
C10_KeyUnique ==
    \A i, j \in 1 .. Len(Rows) : RowKey(Rows[i]) = RowKey(Rows[j]) => i = j

\* the placeholder review questions of a word among the questions
Placeholders(questions, word) ==
    Cardinality({k \in 1 .. Len(questions) :
                    questions[k] = _get_default_review_question(word)})

\* the review loop is over (or was skipped) and nothing else was added:
\* all_questions is the review subset
ReviewSubsetReady == gen.pc = "fresh"

\* generating the review questions of the i-th due word failed: the source
\* is unavailable, the call or the parsing failed, an item was no question
\* object, or no item passed validation
GenerationFailed(i) ==
    \/ ~ai_service
    \/ ~gen.replies[i].ok
    \/ AcceptFrom(gen.replies[i].items, 1).raised
    \/ AcceptFrom(gen.replies[i].items, 1).kept = << >>

\* C11: when generating the review questions of a selected due word fails
\* (source unavailable, call error, malformed reply, no valid item), the
\* review subset holds exactly one placeholder for that word; so every
\* selected due word has at least one question before truncation.
C11_ReviewCoverage ==
    ReviewSubsetReady =>
        \A i \in 1 .. Len(gen.words_due) :
            LET word == gen.words_due[i].word
            IN  /\ GenerationFailed(i) =>
                       Placeholders(gen.all_questions, word) = 1
                /\ \E k \in 1 .. Len(gen.all_questions) :
                       gen.all_questions[k].word = word

\* the fresh step of generate is over and the list is about to be
\* shuffled
FreshDone == gen.pc = "shuffle"

\* the number of fresh questions generate asked for (new_count)
FreshCount == gen.count - (Len(gen.all_questions) - Len(gen.new_questions))

\* the source gave nothing for the fresh batch: it was not called (no
\* article, or no service), the call failed or timed out, or the result
\* was empty or held an item that is no question object
SourceGaveNothing ==
    \/ gen.fresh = << >>
    \/ ~gen.fresh[1].ok
    \/ gen.fresh[1].items = << >>
    \/ AcceptFrom(gen.fresh[1].items, 1).raised

\* C12: when no article is available, or the service is None, or the call
\* fails, times out or returns an empty or malformed result, the fresh
\* questions generate adds to its list are the first new_count questions
\* of the built-in bank; no exception leaves _generate_new_questions.
C12_FallsBackToBank ==
    FreshDone /\ FreshCount > 0 /\ SourceGaveNothing =>
        gen.new_questions = Take(_get_default_questions, FreshCount)

\* the call for the fresh batch of a session of 15 failed: the list holds
\* one review question and the first 14 of the bank
C12_Witness ==
    /\ FreshDone /\ gen.count = 15
    /\ gen.fresh = <<Failed>>
    /\ Len(gen.all_questions) = 15
    /\ gen.new_questions = Take(_get_default_questions, 14)

\* the profile passed to generate names no current language
NoCurrentLanguage(user_config) ==
    \/ user_config = << >>
    \/ "current_language" \notin DOMAIN user_config[1]
    \/ user_config[1].current_language = ""

\* C13: a request to compose a session made when there is no profile, or
\* when the profile has no current language, is answered with a failure
\* and no question list; no default language is used in its place.
C13_ConfigurationRequired ==
    last.op = "generate_questions" /\ NoCurrentLanguage(last.user_config) =>
        last.status = 400

\* C14: every submitted answer causes exactly one update of the progress
\* store and exactly one append to the question log, the update first: the
\* log never holds more answers than the store has taken, and holds as
\* many once the submission is served.
C14_UpdateThenLog ==
    /\ Len(question_history) <= Updates
    /\ ~Submitting => Len(question_history) = Updates

\* C15: after _save_word_data has written the record of (word, language),
\* _get_word_data(word, language) yields a record equal to it in each of
\* the nine fields, also next to other records and after a replacement.
C15_RoundTrip ==
    IsUpdate => _get_word_data(store, last.word, last.language) = <<last.saved>>

IsStats == last.op = "get_mastery_stats"

\* the records of the language; "" selects every language
Matching(language) ==
    {i \in 1 .. Len(Rows) : language = "" \/ Rows[i].language = language}

\* the records with a mastery of at least 0.8
Mastered(S) ==
    {i \in S : 5 * Rows[i].mastery_level[1] >= 4 * Rows[i].mastery_level[2]}

RECURSIVE SumMastery(_)
\* the sum of the masteries of the records S, as a fraction
SumMastery(S) ==
    IF S = {} THEN <<0, 1>>
    ELSE LET i == CHOOSE x \in S : TRUE
             rest == SumMastery(S \ {i})
         IN  <<Rows[i].mastery_level[1] * rest[2]
                 + rest[1] * Rows[i].mastery_level[2],
               Rows[i].mastery_level[2] * rest[2]>>

Abs(x) == IF x >= 0 THEN x ELSE -x

\* the four counts get_mastery_stats returned are those of the matching
\* records
CountsRight ==
    LET S == Matching(last.language)
    IN  /\ ~last.ret.raised
        /\ last.ret.total_words = Cardinality(S)
        /\ last.ret.mastered_words = Cardinality(Mastered(S))
        /\ last.ret.learning_words = Cardinality(S \ Mastered(S))
        /\ last.ret.total_words
               = last.ret.mastered_words + last.ret.learning_words
        /\ S = {} => last.ret.average_mastery = 0

\* C16: get_mastery_stats(language or all) returns total_words, the
\* number of matching records, mastered_words, those of them with
\* mastery >= 0.8, learning_words, those with mastery < 0.8, and
\* average_mastery equal to the mean mastery as a percentage, 0.0 when
\* none matches.
C16_MasteryStats ==
    IsStats =>
        LET S == Matching(last.language)
            sum == SumMastery(S)
        IN  /\ CountsRight
            /\ S # {} =>
                   last.ret.average_mastery * sum[2] * Cardinality(S)
                       = 1000 * sum[1]

\* C16 as amended: the same counts, and average_mastery is the mean
\* mastery as a percentage rounded to one decimal place (within 0.05 of
\* the mean), 0.0 when none matches.
C16_MasteryStatsRounded ==
    IsStats =>
        LET S == Matching(last.language)
            sum == SumMastery(S)
        IN  /\ CountsRight
            /\ S # {} =>
                   2 * Abs(last.ret.average_mastery * sum[2] * Cardinality(S)
                            - 1000 * sum[1])
                       <= sum[2] * Cardinality(S)

\* three records of one language with masteries 0.8, 1/3 and 0: one is
\* mastered, the mean 37.77..% is returned as 37.8
C16_Witness ==
    /\ IsStats /\ last.language = "en" /\ Len(store) = 3
    /\ {store[i].mastery_level : i \in 1 .. 3} = {<<4, 5>>, <<1, 3>>, <<0, 1>>}
    /\ \A i \in 1 .. 3 : store[i].language = "en"
    /\ last.ret.total_words = 3 /\ last.ret.mastered_words = 1
    /\ last.ret.learning_words = 2 /\ last.ret.average_mastery = 378

\* the records the scan is to return from: of the language, due at the
\* time of the call, in file order
DueRows ==
    SelectSeq(Rows, LAMBDA row : /\ row.language = last.language
                                 /\ row.next_review <= last.now)

\* C17: for limit >= 1 get_words_due_for_review(language, limit) returns
\* the first min(limit, n) of the n records of the language that are due,
\* in file order; the due dates do not order them.
C17_FirstDueInFileOrder ==
    IsScan /\ last.limit >= 1 => last.ret = Take(DueRows, last.limit)

\* with limit 1 the first record is returned although the second has been
\* due for longer
C17_Witness ==
    /\ IsScan /\ last.limit = 1 /\ Len(store) >= 2
    /\ store[1].language = last.language /\ store[2].language = last.language
    /\ store[2].next_review < store[1].next_review
    /\ store[1].next_review <= last.now
    /\ last.ret = <<Rows[1]>>

\* the file without its malformed records
Sound(file) == SelectSeq(file, WellFormed)

\* C18: when the store holds a record with an unparseable numeric or
\* timestamp field, get_words_due_for_review and get_mastery_stats do not
\* raise, pass over that record and return what they return for the store
\* without it.
C18_DamageTolerated ==
    /\ IsScan =>
           last.ret = get_words_due_for_review(Sound(store), last.language,
                                               last.limit, last.now)
    /\ IsStats => last.ret = get_mastery_stats(Sound(store), last.language)

\* the items of a batch that pass validation, in their order
ValidItems(items) ==
    SelectSeq(items, LAMBDA q : _validate_question(q) = "valid")

RECURSIVE ReviewBatches(_)
\* the review subset when each batch loses its invalid items only: per
\* due word from the i-th on, the valid items of its reply, or the
\* placeholder when the call failed
ReviewBatches(i) ==
    IF i > Len(gen.replies) THEN << >>
    ELSE (IF gen.replies[i].ok THEN ValidItems(gen.replies[i].items)
          ELSE <<_get_default_review_question(gen.words_due[i].word)>>)
         \o ReviewBatches(i + 1)

\* C19: an item that fails validation, or is no question object at all,
\* is the only item dropped: every valid item of the same batch is
\* accepted, in the review batch of each word and in the fresh batch, and
\* the batch is not aborted or replaced.
C19_OnlyInvalidDropped ==
    /\ ReviewSubsetReady => gen.all_questions = ReviewBatches(1)
    /\ FreshDone /\ gen.fresh # << >> =>
           LET accepted == Take(ValidItems(gen.fresh[1].items), FreshCount)
           IN  Take(gen.new_questions, Len(accepted)) = accepted

\* C20: within one call of generate the source is called at most once per
\* selected due word and at most once for the fresh batch, at most 6 times
\* with the due limit of 5; a failed call is followed at once by the
\* fallback (the placeholder of the word, the bank for the fresh batch),
\* not by a second call.
C20_NoRetries ==
    gen.pc \in {"review", "fresh", "shuffle"} =>
        /\ Len(gen.words_due) <= DueLimit
        /\ Len(gen.replies) <= Len(gen.words_due)
        /\ Len(gen.fresh) <= 1
        /\ gen.calls = Len(gen.replies) + Len(gen.fresh)
        /\ gen.calls <= DueLimit + 1
        /\ \A i \in 1 .. Len(gen.replies) :
               ~gen.replies[i].ok =>
                   Placeholders(gen.all_questions, gen.words_due[i].word) = 1
        /\ FreshDone /\ gen.fresh = <<Failed>> =>
               gen.new_questions = Take(_get_default_questions, FreshCount)

\* six words are due, five are selected and every call fails: six calls,
\* five placeholders and the first ten questions of the bank
C20_Witness ==
    /\ FreshDone /\ Len(store) = 6 /\ Len(gen.words_due) = 5
    /\ gen.calls = 6
    /\ \A i \in 1 .. 5 : gen.replies[i] = Failed
    /\ gen.fresh = <<Failed>>
    /\ gen.all_questions
          = [i \in 1 .. 5 |->
                _get_default_review_question(PracticeWords[i])]
            \o Take(_get_default_questions, 10)


\* both concurrent calls have returned
BothDone == \A t \in Threads : threads[t].pc = "done"

\* the two calls name the same word and language
SameKey ==
    /\ threads[1].word = threads[2].word
    /\ threads[1].language = threads[2].language

\* the stored record of a call's key, as <<row>> or << >>
StoredFor(t) == _get_word_data(store, threads[t].word, threads[t].language)

\* the answers given so far to the key of a call
CallsFor(t) == Answered(<<threads[t].word, threads[t].language>>)[1]

\* C21: two calls for the same word and language that interleave without
\* a lock leave the record computed by the last writer; the stored
\* total_attempts is one short of the answers given exactly when both
\* calls read the same record, that is when the second read came before
\* the first write.
C21_LastWriterWins ==
    BothDone /\ SameKey =>
        /\ StoredFor(last.thread) = <<last.saved>>
        /\ last.saved = threads[last.thread].word_data
        /\ IF threads[1].found = threads[2].found
           THEN last.saved.total_attempts = CallsFor(1) - 1
           ELSE last.saved.total_attempts = CallsFor(1)

\* both calls found the record with one attempt, both have returned, and
\* the store holds the last writer's record with two attempts of three
C21_Witness ==
    /\ BothDone /\ SameKey
    /\ threads[1].found # << >> /\ threads[2].found = threads[1].found
    /\ threads[1].found[1].total_attempts = 1
    /\ CallsFor(1) = 3
    /\ StoredFor(1) = <<last.saved>>
    /\ last.saved.total_attempts = 2

\* the record a call left in the store is the one it computed
Kept(t) == StoredFor(t) = <<threads[t].word_data>>

\* C29: two interleaved calls for different keys: the store ends as the
\* rows the last writer held, so the record of the first writer is kept
\* exactly when the last writer read the rows after the first had
\* written them.
C29_WholeStoreRewritten ==
    BothDone /\ ~SameKey =>
        LET w == last.thread
            f == Other(w)
        IN  /\ store = threads[w].rows
            /\ Kept(w)
            /\ Kept(f) <=>
                  _get_word_data(threads[w].read, threads[f].word,
                                 threads[f].language)
                     = <<threads[f].word_data>>

\* both calls have returned, the first writer updated a record of the
\* store and the store still holds that record as it was before
C29_Witness ==
    /\ BothDone /\ ~SameKey
    /\ threads[Other(last.thread)].found # << >>
    /\ StoredFor(Other(last.thread)) = threads[Other(last.thread)].found
    /\ ~Kept(Other(last.thread))
    /\ Kept(last.thread)

\* the profile as get_user_profile reads it
Profile == get_user_profile(user_md)[1]

\* C30: once setup has written the profile, after any sequence of add,
\* remove and switch requests the learning languages are not empty and
\* current_language is one of them.
C30_CurrentAmongLanguages ==
    user_md # << >> =>
        /\ Profile.learning_languages # << >>
        /\ "current_language" \in DOMAIN Profile
        /\ InSeq(Profile.current_language, Profile.learning_languages)

\* the questions of the review subset whose word field is this word
QuestionsAbout(word) ==
    {k \in 1 .. Len(gen.all_questions) : gen.all_questions[k].word = word}

\* C25: whatever the source returns, the review subset holds one or two
\* questions for each selected due word, and every question of the subset
\* is about one of the selected due words.
C25_OneOrTwoPerDueWord ==
    ReviewSubsetReady =>
        /\ \A i \in 1 .. Len(gen.words_due) :
               Cardinality(QuestionsAbout(gen.words_due[i].word)) \in 1 .. 2
        /\ \A k \in 1 .. Len(gen.all_questions) :
               \E i \in 1 .. Len(gen.words_due) :
                   gen.all_questions[k].word = gen.words_due[i].word

\* two questions with the same word and the same question text
SameQuestion(p, q) == p.word = q.word /\ p.question = q.question

\* the question is one of the built-in bank
FromBank(q) == InSeq(q, _get_default_questions)

\* C23: the list is filled up from the built-in bank in bank order with
\* the bank items that are not yet in it; bank items enter a session in
\* no other way, so no bank item is in the returned session twice.
C23_PaddingSkipsPresent ==
    IsDone =>
        \A i, j \in 1 .. Len(gen.ret) :
            i # j /\ FromBank(gen.ret[i]) =>
                ~SameQuestion(gen.ret[i], gen.ret[j])

\* generate is running for a request whose profile names a current
\* language
SessionFor(language) ==
    /\ last.op = "generate_questions" /\ last.status = 200
    /\ gen.pc \in {"review", "fresh", "shuffle"}
    /\ "current_language" \in DOMAIN last.user_config[1]
    /\ last.user_config[1].current_language = language

\* C22: for a profile whose current_language is L, generate selects the
\* due words of language L with limit 5: at most 5 words, each of them
\* recorded under L.
C22_DueWordsOfCurrentLanguage ==
    \A language \in Languages :
        SessionFor(language) =>
            /\ gen.language = language
            /\ gen.words_due = get_words_due_for_review(store, language,
                                                        DueLimit, clock)
            /\ Len(gen.words_due) <= DueLimit
            /\ \A i \in 1 .. Len(gen.words_due) :
                   gen.words_due[i].language = language

\* C24: after update_word_progress, called at time t, the stored record
\* has last_review = t and next_review = t + interval days, on the create
\* and on the update path; so next_review is later than last_review.
C24_NextReviewFromLastReview ==
    IsUpdate =>
        /\ \E i \in 1 .. Len(store) : store[i] = last.saved
        /\ last.saved.last_review = last.now
        /\ last.saved.next_review = last.now + last.saved.interval * Day
        /\ last.saved.next_review > last.saved.last_review

\* C26: every record update_word_progress has stored has interval 1 and a
\* next_review exactly one day after its last_review, whatever the answers
\* and the times spent.
C26_AlwaysOneDay ==
    \A i \in 1 .. Len(store) :
        /\ store[i].interval = 1
        /\ store[i].next_review = store[i].last_review + Day

\* C27: along answers submitted without a time, an update of a word that
\* was answered before starts from the ease factor its last update stored
\* and never raises it: a right answer leaves it, a wrong answer takes
\* 0.32 off down to the floor of 1.3; it never exceeds 2.5.
C27_EaseNeverRises ==
    IsUpdate =>
        /\ last.quality \in {2, 4}
        /\ Answered(<<last.word, last.language>>)[1] > 1 => last.found
        /\ last.saved.ease_factor <= last.old_ef
        /\ last.saved.ease_factor <= InitialEF
        /\ last.is_correct => last.saved.ease_factor = last.old_ef
        /\ ~last.is_correct =>
               last.saved.ease_factor = Max(MIN_EF, last.old_ef - 32)

\* what a step that rewrites the store may change, when the step is a
\* call of update_word_progress for this word and language
FrameOf(word, language) ==
    /\ Len(store') >= Len(store)
    /\ \A i \in 1 .. Len(store) :
          /\ RowKey(store'[i]) = RowKey(store[i])
          /\ RowKey(store[i]) # <<word, language>> => store'[i] = store[i]
    /\ IF \E i \in 1 .. Len(store) : RowKey(store[i]) = <<word, language>>
       THEN Len(store') = Len(store)
       ELSE /\ Len(store') = Len(store) + 1
            /\ RowKey(store'[Len(store')]) = <<word, language>>

\* C28: a call of update_word_progress for (word, language) leaves every
\* record of another key as it was and where it was, removes no record,
\* keeps an existing key at its position and appends a new key at the
\* end of the store.
C28_UpdateFrame ==
    [][store' # store => FrameOf(last'.word, last'.language)]_vars

===========================================================================
